---- MODULE Spec2Model ----
(***************************************************************************)
(* A model of the Python launcher: the version model, the search-path     *)
(* scan of main() (src/src/main.rs), the command-line decision of          *)
(* Action::from_main and the shebang functions (src/src/cli.rs).           *)
(*                                                                         *)
(* Text is a sequence of one-character strings, so that prefixes, slices   *)
(* and splits are computed character by character as the code does.        *)
(***************************************************************************)
EXTENDS Integers, Sequences, FiniteSets

(***************************************************************************)
(* Bounds of the model.                                                    *)
(***************************************************************************)
\* Directories on the search path.
MaxDirs == 2
\* Version-named entries in one directory.
MaxEntries == 2

(***************************************************************************)
(* Version model (version.rs / lib.rs are not among the source files; the  *)
(* definitions of this section follow sections 3 and 4.1 of the            *)
(* specification).                                                         *)
(***************************************************************************)
Any == [kind |-> "Any", major |-> 0, minor |-> 0]
MajorOnly(m) == [kind |-> "MajorOnly", major |-> m, minor |-> 0]
Exact(m, n) == [kind |-> "Exact", major |-> m, minor |-> n]
\* Option::None, or the Err of a parse.
NoVersion == [kind |-> "None", major |-> 0, minor |-> 0]

Digits == {"0", "1", "2", "3", "4", "5", "6", "7", "8", "9"}

DigitVal(c) ==
    CASE c = "0" -> 0 [] c = "1" -> 1 [] c = "2" -> 2 [] c = "3" -> 3
      [] c = "4" -> 4 [] c = "5" -> 5 [] c = "6" -> 6 [] c = "7" -> 7
      [] c = "8" -> 8 [] c = "9" -> 9

IsDigits(s) == Len(s) > 0 /\ \A i \in 1..Len(s) : s[i] \in Digits

RECURSIVE ToNat(_)
ToNat(s) ==
    IF s = <<>> THEN 0
    ELSE ToNat(SubSeq(s, 1, Len(s) - 1)) * 10 + DigitVal(s[Len(s)])

\* RequestedVersion::from_str: "" is Any, <major> is MajorOnly,
\* <major>.<minor> is Exact, anything else an error.
from_str(s) ==
    IF s = <<>> THEN Any
    ELSE IF IsDigits(s) THEN MajorOnly(ToNat(s))
    ELSE IF \E i \in 1..Len(s) :
                /\ s[i] = "."
                /\ IsDigits(SubSeq(s, 1, i - 1))
                /\ IsDigits(SubSeq(s, i + 1, Len(s)))
         THEN LET i == CHOOSE k \in 1..Len(s) : s[k] = "."
              IN  Exact(ToNat(SubSeq(s, 1, i - 1)), ToNat(SubSeq(s, i + 1, Len(s))))
    ELSE NoVersion

\* Version::matches: the compatibility of a discovered version with the
\* requested one.
matches(version, requested) ==
    CASE requested.kind = "Any" -> "Loosely"
      [] requested.kind = "MajorOnly" ->
            IF version.major # requested.major THEN "NotAtAll"
            ELSE IF version.kind = "MajorOnly" THEN "Exactly"
            ELSE "Loosely"
      [] requested.kind = "Exact" ->
            IF version = requested THEN "Exactly" ELSE "NotAtAll"

\* The minor of a version for the ordering: absent sorts below any minor.
MinorRank(v) == IF v.kind = "Exact" THEN v.minor ELSE -1

\* The ordering of discovered versions: major first, then minor.
VersionLess(a, b) ==
    \/ a.major < b.major
    \/ a.major = b.major /\ MinorRank(a) < MinorRank(b)

\* A path is the directory (its position on the search path) joined with
\* the file name python<version>.
PathOf(d, v) == [dir |-> d, version |-> v]
NoPath == [dir |-> 0, version |-> NoVersion]

\* choose_executable: the path of the greatest key of the table, or None.
choose_executable(found) ==
    IF DOMAIN found = {} THEN NoPath
    ELSE found[CHOOSE v \in DOMAIN found :
                  \A w \in DOMAIN found : w = v \/ VersionLess(w, v)]

StartsWith(s, p) == Len(s) >= Len(p) /\ SubSeq(s, 1, Len(p)) = p

\* parse_version_from_flag: -<major> or -<major>.<minor>, nothing else.
parse_version_from_flag(arg) ==
    IF ~StartsWith(arg, <<"-">>) THEN NoVersion
    ELSE LET v == from_str(Tail(arg))
         IN  IF v.kind \in {"MajorOnly", "Exact"} THEN v ELSE NoVersion

(***************************************************************************)
(* Inputs of main(): the argument vector and the directories of PATH.      *)
(***************************************************************************)
Py == <<"p", "y">>
Script == <<"x", ".", "p", "y">>

MainArgvs ==
    { <<Py>>,
      <<Py, <<"-", "3">>>>,
      <<Py, <<"-", "3", ".", "6">>>>,
      <<Py, <<"-", "2">>, Script>> }

DiscoveredVersions == {MajorOnly(3), Exact(3, 6), Exact(3, 8), Exact(2, 7)}

\* One element of filter_python_executables' result, with what is_file()
\* answers for its path.
Candidates == [version : DiscoveredVersions, is_file : BOOLEAN]

\* The candidates of one directory, in enumeration order; file names are
\* unique in a directory.
Listings ==
    { s \in UNION {[1..n -> Candidates] : n \in 0..MaxEntries} :
        \A i, j \in 1..Len(s) : i # j => s[i].version # s[j].version }

EmptyTable == [v \in {} |-> NoPath]

Insert(found, version, path) ==
    [k \in DOMAIN found \cup {version} |-> IF k = version THEN path ELSE found[k]]

VARIABLES
    argv,               \* env::args()
    args,               \* main's args
    requested_version,  \* main's requested_version
    dir_index,          \* how many directories of path_entries() were entered
    contents,           \* the candidates of the current directory
    entry_index,        \* the position of the inner loop in contents
    found_versions,     \* main's found_versions
    chosen_path,        \* main's chosen_path
    passed_argv,        \* the argv handed to execv
    pc,                 \* where main is
    exit_status,        \* the exit status, -1 while running or once replaced
    printed,            \* the diagnostics written
    first_file,         \* history: per version, the first directory entered
                        \* that holds it as a regular file (0: none so far)
    virtual_env,        \* the environment's VIRTUAL_ENV
    directories,        \* path::path_entries() as from_main sees it
    action,             \* the result of Action::from_main
    venv_executable,    \* the result of activated_venv_executable
    stream,             \* the reader a shebang function reads from
    parsed,             \* the result of parse_python_shebang
    shebang,            \* the result of find_shebang
    split               \* the result of split_shebang

mainVars == <<dir_index, contents, entry_index, found_versions, chosen_path,
              passed_argv, exit_status, printed, first_file>>
cliVars == <<virtual_env, directories, action, venv_executable>>
shVars == <<stream, parsed, shebang, split>>

vars == <<argv, args, requested_version, pc, mainVars, cliVars, shVars>>

\* The variables of from_main and of the shebang functions while main runs.
NoEnv == [set |-> FALSE, root |-> 0]
NoAction == [kind |-> "None", executable |-> NoPath, args |-> <<>>]
NoLine == [some |-> FALSE, line |-> <<>>]
NoSplit == [some |-> FALSE, version |-> NoVersion, args |-> <<>>]

CliIdle ==
    /\ virtual_env = NoEnv
    /\ directories = <<>>
    /\ action = NoAction
    /\ venv_executable = NoPath

ShIdle ==
    /\ stream = [bytes |-> <<>>, first_read |-> 0, error |-> "none"]
    /\ parsed = NoVersion
    /\ shebang = NoLine
    /\ split = NoSplit

MainIdle ==
    /\ dir_index = 0
    /\ contents = <<>>
    /\ entry_index = 1
    /\ found_versions = EmptyTable
    /\ chosen_path = NoPath
    /\ passed_argv = <<>>
    /\ exit_status = -1
    /\ printed = 0
    /\ first_file = [v \in DiscoveredVersions |-> 0]

Init ==
    /\ argv \in MainArgvs
    /\ args = <<>>
    /\ requested_version = Any
    /\ pc = "main"
    /\ MainIdle
    /\ CliIdle
    /\ ShIdle

\* main.rs 34-43: strip the launcher's path, take a leading version flag.
strip_args(a) ==
    LET rest == Tail(a)
        flagged == Len(rest) >= 1 /\ parse_version_from_flag(rest[1]) # NoVersion
    IN  [args |-> IF flagged THEN Tail(rest) ELSE rest,
         requested_version |-> IF flagged THEN parse_version_from_flag(rest[1])
                               ELSE Any]

MainParseArgs ==
    /\ pc = "main"
    /\ args' = strip_args(argv).args
    /\ requested_version' = strip_args(argv).requested_version
    /\ pc' = "dirs"
    /\ UNCHANGED <<argv, dir_index, contents, entry_index, found_versions,
                   chosen_path, passed_argv, exit_status, printed, first_file>>
    /\ UNCHANGED <<cliVars, shVars>>

\* main.rs 46-47: the outer loop takes the next directory and lists it, or
\* the path is exhausted.
MainNextDir ==
    /\ pc = "dirs"
    /\ dir_index < MaxDirs
    /\ \E listing \in Listings :
          /\ contents' = listing
          /\ first_file' =
                [v \in DiscoveredVersions |->
                    IF first_file[v] = 0
                       /\ \E i \in 1..Len(listing) :
                             listing[i].version = v /\ listing[i].is_file
                    THEN dir_index + 1 ELSE first_file[v]]
    /\ dir_index' = dir_index + 1
    /\ entry_index' = 1
    /\ pc' = "entries"
    /\ UNCHANGED <<argv, args, requested_version, found_versions, chosen_path,
                   passed_argv, exit_status, printed>>
    /\ UNCHANGED <<cliVars, shVars>>

MainPathDone ==
    /\ pc = "dirs"
    /\ pc' = "choose"
    /\ UNCHANGED <<argv, args, requested_version, dir_index, contents,
                   entry_index, found_versions, chosen_path, passed_argv,
                   exit_status, printed, first_file>>
    /\ UNCHANGED <<cliVars, shVars>>

\* scan_candidate with the Exactly arm inserting without asking is_file().
scan_candidate_unchecked(found, requested, version, path, is_file) ==
    CASE matches(version, requested) = "NotAtAll" ->
            [found |-> found, brk |-> FALSE]
      [] matches(version, requested) = "Loosely" ->
            IF version \notin DOMAIN found /\ is_file
            THEN [found |-> Insert(found, version, path), brk |-> FALSE]
            ELSE [found |-> found, brk |-> FALSE]
      [] matches(version, requested) = "Exactly" ->
            [found |-> Insert(found, version, path), brk |-> TRUE]

\* scan_candidate with the NotAtAll arm falling into the Loosely arm.
scan_candidate_keep_all(found, requested, version, path, is_file) ==
    CASE matches(version, requested) \in {"NotAtAll", "Loosely"} ->
            IF version \notin DOMAIN found /\ is_file
            THEN [found |-> Insert(found, version, path), brk |-> FALSE]
            ELSE [found |-> found, brk |-> FALSE]
      [] matches(version, requested) = "Exactly" ->
            IF is_file
            THEN [found |-> Insert(found, version, path), brk |-> TRUE]
            ELSE [found |-> found, brk |-> FALSE]

\* main.rs 49-62: the match on one candidate; brk is the break of the
\* inner loop.
scan_candidate(found, requested, version, path, is_file) ==
    CASE matches(version, requested) = "NotAtAll" ->
            [found |-> found, brk |-> FALSE]
      [] matches(version, requested) = "Loosely" ->
            IF version \notin DOMAIN found /\ is_file
            THEN [found |-> Insert(found, version, path), brk |-> FALSE]
            ELSE [found |-> found, brk |-> FALSE]
      [] matches(version, requested) = "Exactly" ->
            IF is_file
            THEN [found |-> Insert(found, version, path), brk |-> TRUE]
            ELSE [found |-> found, brk |-> FALSE]

\* main.rs 48-63: one iteration of the inner loop, or its end.
MainScanEntry ==
    /\ pc = "entries"
    /\ IF entry_index > Len(contents)
       THEN /\ pc' = "dirs"
            /\ UNCHANGED <<found_versions, entry_index>>
       ELSE LET c == contents[entry_index]
                r == scan_candidate(found_versions, requested_version, c.version,
                                    PathOf(dir_index, c.version), c.is_file)
            IN  /\ found_versions' = r.found
                /\ entry_index' = entry_index + 1
                /\ pc' = IF r.brk THEN "dirs" ELSE "entries"
    /\ UNCHANGED <<argv, args, requested_version, dir_index, contents,
                   chosen_path, passed_argv, exit_status, printed, first_file>>
    /\ UNCHANGED <<cliVars, shVars>>

\* main.rs 66: choose_executable(..).unwrap(); the unwrap of None panics,
\* which writes the panic message and exits with status 101.
PanicStatus == 101

MainChoose ==
    /\ pc = "choose"
    /\ IF choose_executable(found_versions) = NoPath
       THEN /\ pc' = "exited"
            /\ exit_status' = PanicStatus
            /\ printed' = printed + 1
            /\ UNCHANGED chosen_path
       ELSE /\ chosen_path' = choose_executable(found_versions)
            /\ pc' = "run"
            /\ UNCHANGED <<exit_status, printed>>
    /\ UNCHANGED <<argv, args, requested_version, dir_index, contents,
                   entry_index, found_versions, passed_argv, first_file>>
    /\ UNCHANGED <<cliVars, shVars>>

\* main.rs 84-91: the argv of execv is the executable followed by args.
run_argv(executable, a) == <<executable>> \o a

\* main.rs 67-70 and 92-96: execv replaces the process image, or returns an
\* error that main prints before it returns normally.
MainRun ==
    /\ pc = "run"
    /\ passed_argv' = run_argv(chosen_path, args)
    /\ \E replaced \in BOOLEAN :
          IF replaced
          THEN /\ pc' = "replaced"
               /\ UNCHANGED <<exit_status, printed>>
          ELSE /\ pc' = "exited"
               /\ printed' = printed + 1
               /\ exit_status' = 0
    /\ UNCHANGED <<argv, args, requested_version, dir_index, contents,
                   entry_index, found_versions, chosen_path, first_file>>
    /\ UNCHANGED <<cliVars, shVars>>

Next ==
    \/ MainParseArgs
    \/ MainNextDir
    \/ MainPathDone
    \/ MainScanEntry
    \/ MainChoose
    \/ MainRun

Spec == Init /\ [][Next]_vars

(***************************************************************************)
(* Claims about main()'s scan, checked under Spec.                         *)
(***************************************************************************)
MainDecided == pc \in {"run", "replaced", "exited"}

\* The versions some directory entered so far holds as a regular file and
\* that are compatible with the request.
Offered ==
    {v \in DiscoveredVersions :
        first_file[v] # 0 /\ matches(v, requested_version) # "NotAtAll"}

Greatest(S) == CHOOSE v \in S : \A w \in S : w = v \/ VersionLess(w, v)

\* C1: for a MajorOnly request, once the scan is over the winner is the path
\* of the greatest version among all the regular-file candidates of the
\* search path that are compatible with the request.
C1_GreatestCompatibleWins ==
    (MainDecided /\ requested_version.kind = "MajorOnly" /\ Offered # {})
        => /\ chosen_path # NoPath
           /\ chosen_path.version = Greatest(Offered)

\* C2: the winning path is the first candidate in scan order that is a
\* regular file and carries the winning version: it lies in the first
\* directory that holds that version as a regular file.
C2_FirstInScanOrderWins ==
    (MainDecided /\ chosen_path # NoPath)
        => chosen_path.dir = first_file[chosen_path.version]

AtCandidate == pc = "entries" /\ entry_index <= Len(contents)

TableValues == {found_versions[v] : v \in DOMAIN found_versions}

\* C3: the resolution table changes only by the insertion of the candidate
\* under scan, and only when that candidate is a regular file; a candidate
\* that is not a regular file leaves the table as it is and the scan goes on
\* to the next entry of the same directory; the winner is a path of the
\* table.
C3_NonFileNeverInserted ==
    [][ /\ (found_versions' # found_versions) =>
              /\ AtCandidate
              /\ contents[entry_index].is_file
              /\ found_versions' =
                    Insert(found_versions, contents[entry_index].version,
                           PathOf(dir_index, contents[entry_index].version))
        /\ (AtCandidate /\ ~contents[entry_index].is_file) =>
              /\ found_versions' = found_versions
              /\ pc' = "entries"
              /\ entry_index' = entry_index + 1
              /\ <<dir_index, contents>>' = <<dir_index, contents>>
        /\ (chosen_path' # chosen_path) => chosen_path' \in TableValues
      ]_vars

\* A candidate that is no regular file and that matches the request exactly
\* was scanned, and the scan of its directory goes on.
C3_Witness ==
    /\ pc = "entries"
    /\ entry_index = 2
    /\ Len(contents) = 2
    /\ ~contents[1].is_file
    /\ matches(contents[1].version, requested_version) = "Exactly"

\* C9: a run that ends without having replaced the process image has
\* written one diagnostic and exits with a non-zero status.
C9_FailureExitsNonZero ==
    pc = "exited" => (exit_status # 0 /\ printed = 1)

\* C10: every key of the resolution table is compatible with the request;
\* for a MajorOnly(m) request the winner's major is m; for an Exact(m, n)
\* request the table holds no key but Exact(m, n) and the winner has that
\* version.
C10_TableKeysCompatible ==
    /\ \A v \in DOMAIN found_versions :
          matches(v, requested_version) \in {"Loosely", "Exactly"}
    /\ (requested_version.kind = "MajorOnly" /\ chosen_path # NoPath)
          => chosen_path.version.major = requested_version.major
    /\ requested_version.kind = "Exact"
          => /\ DOMAIN found_versions \subseteq {requested_version}
             /\ chosen_path # NoPath => chosen_path.version = requested_version

\* An incompatible candidate was scanned in a directory that also holds a
\* compatible one, and a winner was chosen.
C10_Witness ==
    /\ pc = "run"
    /\ requested_version.kind \in {"MajorOnly", "Exact"}
    /\ \E i \in 1..Len(contents) :
          matches(contents[i].version, requested_version) = "NotAtAll"
    /\ chosen_path.dir = dir_index

(***************************************************************************)
(* The command line: Action::from_main and what it calls (cli.rs).         *)
(***************************************************************************)
\* First tokens are drawn from every text of at most MaxFlagLen characters
\* over FlagChars, and from the named tokens.
MaxFlagLen == 4
\* Tokens after the first one.
MaxRest == 1

Seqs(S, n) == UNION {[1..k -> S] : k \in 0..n}

FlagChars == {"-", "3", "6", "."}

NamedTokens ==
    { <<"-", "h">>,
      <<"-", "-", "h", "e", "l", "p">>,
      <<"-", "-", "l", "i", "s", "t">>,
      <<"-", "S">>,
      <<"-", "-", "s", "o", "m", "e", "t", "h", "i", "n", "g">>,
      <<"-", "3", ".", "6", ".", "4">>,
      <<"-", "4", "2", ".", "1", "3">>,
      Script }

FlagTokens == Seqs(FlagChars, MaxFlagLen) \cup NamedTokens

RestTokens == {<<"-", "3">>, Script}

CliArgvs ==
    {<<Py>>} \cup
    {<<Py, t>> \o rest : t \in FlagTokens, rest \in Seqs(RestTokens, MaxRest)}

File(v) == [version |-> v, is_file |-> TRUE]

\* The search paths from_main is run on.
CliPaths ==
    { <<>>,
      << <<File(Exact(3, 6))>> >>,
      << <<File(MajorOnly(3)), File(Exact(3, 8))>>, <<File(Exact(3, 6))>> >> }

VenvRoots == {-1}

CliEnvs == {NoEnv} \cup {[set |-> TRUE, root |-> r] : r \in VenvRoots}

\* path::find_executable is not among the source files: the resolver of
\* section 4.4 of the specification, scanning with the rules of main's match.
RECURSIVE scan_directory(_, _, _, _, _)
scan_directory(found, requested, listing, d, i) ==
    IF i > Len(listing) THEN found
    ELSE LET r == scan_candidate(found, requested, listing[i].version,
                                 PathOf(d, listing[i].version), listing[i].is_file)
         IN  IF r.brk THEN r.found
             ELSE scan_directory(r.found, requested, listing, d, i + 1)

RECURSIVE scan_path(_, _, _, _)
scan_path(found, requested, dirs, d) ==
    IF d > Len(dirs) THEN found
    ELSE scan_path(scan_directory(found, requested, dirs[d], d, 1),
                   requested, dirs, d + 1)

find_executable(requested, dirs) ==
    choose_executable(scan_path(EmptyTable, requested, dirs, 1))

\* path::all_executables: every discovered version with its path.
all_executables(dirs) == scan_path(EmptyTable, Any, dirs, 1)

\* cli.rs 86-92.
version_from_flag(arg) ==
    IF ~StartsWith(arg, <<"-">>) THEN NoVersion
    ELSE from_str(SubSeq(arg, 2, Len(arg)))

\* cli.rs 62-80.
help(launcher_path, dirs) ==
    IF find_executable(Any, dirs) # NoPath
    THEN [kind |-> "Help", executable |-> find_executable(Any, dirs), args |-> <<>>]
    ELSE [kind |-> "Err", executable |-> NoPath, args |-> <<>>]

\* cli.rs 94-127: the listing itself is text, kept out of the model.
list_executables(dirs) ==
    IF DOMAIN all_executables(dirs) = {}
    THEN [kind |-> "Err", executable |-> NoPath, args |-> <<>>]
    ELSE [kind |-> "List", executable |-> NoPath, args |-> <<>>]

IsHelpFlag(flag) == flag \in {<<"-", "h">>, <<"-", "-", "h", "e", "l", "p">>}
IsListFlag(flag) == flag = <<"-", "-", "l", "i", "s", "t">>

\* cli.rs 26-47: from_main's args and requested_version when it goes on to
\* find an executable.
from_main_args(a) ==
    LET rest == Tail(a)
        taken == /\ rest # <<>>
                 /\ ~IsHelpFlag(rest[1])
                 /\ ~IsListFlag(rest[1])
                 /\ version_from_flag(rest[1]) # NoVersion
    IN  [args |-> IF taken THEN Tail(rest) ELSE rest,
         requested_version |-> IF taken THEN version_from_flag(rest[1]) ELSE Any]

\* cli.rs 25-59.
from_main(a, dirs) ==
    LET rest == Tail(a)
    IN  IF rest # <<>> /\ IsHelpFlag(rest[1]) THEN help(a[1], dirs)
        ELSE IF rest # <<>> /\ IsListFlag(rest[1]) THEN list_executables(dirs)
        ELSE LET executable ==
                    find_executable(from_main_args(a).requested_version, dirs)
             IN  IF executable # NoPath
                 THEN [kind |-> "Execute", executable |-> executable,
                       args |-> from_main_args(a).args]
                 ELSE [kind |-> "Err", executable |-> NoPath, args |-> <<>>]

\* cli.rs 133-145: <VIRTUAL_ENV>/bin/python, a file name without a version.
activated_venv_executable(env) ==
    IF ~env.set THEN NoPath ELSE PathOf(env.root, NoVersion)

InitCli ==
    /\ argv \in CliArgvs
    /\ args = <<>>
    /\ requested_version = Any
    /\ pc = "from_main"
    /\ virtual_env \in CliEnvs
    /\ directories \in CliPaths
    /\ action = NoAction
    /\ venv_executable = NoPath
    /\ MainIdle
    /\ ShIdle

FromMain ==
    /\ pc = "from_main"
    /\ action' = from_main(argv, directories)
    /\ args' = from_main_args(argv).args
    /\ requested_version' = from_main_args(argv).requested_version
    /\ pc' = "venv"
    /\ UNCHANGED <<argv, virtual_env, directories, venv_executable, mainVars, shVars>>

ActivatedVenv ==
    /\ pc = "venv"
    /\ venv_executable' = activated_venv_executable(virtual_env)
    /\ pc' = "cli_done"
    /\ UNCHANGED <<argv, args, requested_version, virtual_env, directories,
                   action, mainVars, shVars>>

NextCli == FromMain \/ ActivatedVenv

SpecCli == InitCli /\ [][NextCli]_vars

(***************************************************************************)
(* Claims about the command line, checked under SpecCli.                   *)
(***************************************************************************)
FromMainDone == pc \in {"venv", "cli_done"}

\* -<major> or -<major>.<minor>, both decimal.
IsVersionFlag(t) ==
    /\ Len(t) >= 2
    /\ t[1] = "-"
    /\ \/ \A i \in 2..Len(t) : t[i] \in Digits
       \/ \E d \in 3..(Len(t) - 1) :
             /\ t[d] = "."
             /\ \A i \in 2..Len(t) : i # d => t[i] \in Digits

\* The version a version flag names.
FlagVersion(t) ==
    IF \A i \in 2..Len(t) : t[i] \in Digits
    THEN MajorOnly(ToNat(SubSeq(t, 2, Len(t))))
    ELSE LET d == CHOOSE i \in 2..Len(t) : t[i] = "."
         IN  Exact(ToNat(SubSeq(t, 2, d - 1)), ToNat(SubSeq(t, d + 1, Len(t))))

\* C4: with VIRTUAL_ENV set and no version flag given, from_main decides to
\* execute <VIRTUAL_ENV>/bin/python, whatever the search path holds.
C4_VenvBypassesResolution ==
    (/\ FromMainDone
     /\ virtual_env.set
     /\ Len(argv) = 1 \/ version_from_flag(argv[2]) = NoVersion
     /\ Len(argv) = 1 \/ (~IsHelpFlag(argv[2]) /\ ~IsListFlag(argv[2])))
        => /\ action.kind = "Execute"
           /\ action.executable = activated_venv_executable(virtual_env)

\* C7: version_from_flag gives a version exactly for -<major> and
\* -<major>.<minor>; for any other first argument from_main keeps the
\* request at Any and keeps the argument.
C7_OnlyVersionFlagsRecognized ==
    (FromMainDone /\ Len(argv) >= 2)
        => /\ (version_from_flag(argv[2]) # NoVersion) <=> IsVersionFlag(argv[2])
           /\ IsVersionFlag(argv[2])
                 => version_from_flag(argv[2]) = FlagVersion(argv[2])
           /\ ~IsVersionFlag(argv[2])
                 => (requested_version = Any /\ args = Tail(argv))

\* C8: the arguments of the decision to execute are argv without the
\* launcher's path and, only when the first of them is a version flag,
\* without that one token.
C8_ArgumentsForwarded ==
    (FromMainDone /\ action.kind = "Execute")
        => action.args =
              IF Len(argv) >= 2 /\ IsVersionFlag(argv[2])
              THEN SubSeq(argv, 3, Len(argv))
              ELSE Tail(argv)

(***************************************************************************)
(* The shebang functions (cli.rs).                                         *)
(***************************************************************************)
\* Characters after the interpreter's path on the first line.
MaxTail == 5

\* char::is_whitespace, the Unicode White_Space property that str::trim and
\* str::split_whitespace use. A character that has no escape in a string is
\* written as the name of its code point.
Whitespace ==
    { "\t", "\n", "U+000B", "\f", "\r", " ", "U+0085", "U+00A0", "U+1680",
      "U+2000", "U+2001", "U+2002", "U+2003", "U+2004", "U+2005", "U+2006",
      "U+2007", "U+2008", "U+2009", "U+200A", "U+2028", "U+2029", "U+202F",
      "U+205F", "U+3000" }

RECURSIVE TrimStart(_)
TrimStart(s) ==
    IF s # <<>> /\ s[1] \in Whitespace THEN TrimStart(Tail(s)) ELSE s

RECURSIVE TrimEnd(_)
TrimEnd(s) ==
    IF s # <<>> /\ s[Len(s)] \in Whitespace
    THEN TrimEnd(SubSeq(s, 1, Len(s) - 1)) ELSE s

\* str::trim
Trim(s) == TrimEnd(TrimStart(s))

\* BufRead::read_line: up to and including the first newline.
RECURSIVE read_line(_)
read_line(s) ==
    IF s = <<>> THEN <<>>
    ELSE IF s[1] = "\n" THEN <<"\n">>
    ELSE <<s[1]>> \o read_line(Tail(s))

\* Iterator::take_while(|c| c.is_ascii_digit() || *c == '.')
RECURSIVE TakeVersionChars(_)
TakeVersionChars(s) ==
    IF s # <<>> /\ s[1] \in Digits \cup {"."}
    THEN <<s[1]>> \o TakeVersionChars(Tail(s)) ELSE <<>>

RECURSIVE TakeToken(_)
TakeToken(s) ==
    IF s # <<>> /\ s[1] \notin Whitespace
    THEN <<s[1]>> \o TakeToken(Tail(s)) ELSE <<>>

\* str::split_whitespace
RECURSIVE split_whitespace(_)
split_whitespace(s) ==
    IF TrimStart(s) = <<>> THEN <<>>
    ELSE LET t == TrimStart(s)
             token == TakeToken(t)
         IN  <<token>> \o split_whitespace(SubSeq(t, Len(token) + 1, Len(t)))

UsrBinPython ==
    <<"/", "u", "s", "r", "/", "b", "i", "n", "/", "p", "y", "t", "h", "o", "n">>
UsrLocalBinPython ==
    <<"/", "u", "s", "r", "/", "l", "o", "c", "a", "l", "/", "b", "i", "n", "/",
      "p", "y", "t", "h", "o", "n">>
UsrBinEnvPython ==
    <<"/", "u", "s", "r", "/", "b", "i", "n", "/", "e", "n", "v", " ",
      "p", "y", "t", "h", "o", "n">>
Python == <<"p", "y", "t", "h", "o", "n">>
UsrBinRustup ==
    <<"/", "u", "s", "r", "/", "b", "i", "n", "/", "r", "u", "s", "t", "u", "p">>

\* cli.rs 165-170: accepted_paths of parse_python_shebang.
parse_accepted_paths == <<Python, UsrBinPython, UsrLocalBinPython, UsrBinEnvPython>>

\* cli.rs 212-217: accepted_paths of split_shebang.
split_accepted_paths == <<UsrBinPython, UsrLocalBinPython, UsrBinEnvPython, Python>>

\* The position of the first of paths that line starts with, from i on; 0 when
\* the loop runs out.
RECURSIVE first_accepted(_, _, _)
first_accepted(line, paths, i) ==
    IF i > Len(paths) THEN 0
    ELSE IF StartsWith(line, paths[i]) THEN i
    ELSE first_accepted(line, paths, i + 1)

\* A reader (impl Read): its bytes, how many of them its first read() call
\* hands over at most (io::Read allows a short read), and where it fails:
\* "read" on its first call, "read_line" while the first line is read (an I/O
\* error, or a line that is not UTF-8), "none" nowhere.
Reader(bytes, first_read, error) ==
    [bytes |-> bytes, first_read |-> first_read, error |-> error]

\* cli.rs 149-150: the two-byte buffer starts as zeros and read() fills what
\* the reader hands over; the buffer is #! only when both bytes arrived.
shebang_buffer_filled(reader) ==
    /\ Len(reader.bytes) >= 2
    /\ reader.first_read >= 2
    /\ SubSeq(reader.bytes, 1, 2) = <<"#", "!">>

\* cli.rs 148-184. The version is parsed from the slice of acceptable_path
\* past its own length.
parse_python_shebang(reader) ==
    IF reader.error = "read" \/ ~shebang_buffer_filled(reader) THEN NoVersion
    ELSE IF reader.error = "read_line" THEN NoVersion
    ELSE LET first_line == read_line(SubSeq(reader.bytes, 3, Len(reader.bytes)))
             line == Trim(first_line)
             i == first_accepted(line, parse_accepted_paths, 1)
         IN  IF i = 0 THEN NoVersion
             ELSE LET acceptable_path == parse_accepted_paths[i]
                  IN  from_str(SubSeq(acceptable_path, Len(acceptable_path) + 1,
                                      Len(acceptable_path)))

\* cli.rs 189-202. read_line reads on after a short read, and fails when the
\* reader does.
find_shebang(reader) ==
    IF reader.error # "none" THEN NoLine
    ELSE LET line == read_line(reader.bytes)
         IN  IF ~StartsWith(line, <<"#", "!">>) THEN NoLine
             ELSE [some |-> TRUE, line |-> Trim(SubSeq(line, 3, Len(line)))]

\* split_shebang with the arguments taken from the text after the path, the
\* version fragment included.
split_shebang_keep_version(shebang_line) ==
    LET i == first_accepted(shebang_line, split_accepted_paths, 1)
    IN  IF i = 0 THEN NoSplit
        ELSE LET exec_path == split_accepted_paths[i]
                 trimmed_shebang ==
                     SubSeq(shebang_line, Len(exec_path) + 1, Len(shebang_line))
                 version_string == TakeVersionChars(trimmed_shebang)
                 specified_version ==
                     IF version_string = <<>> THEN MajorOnly(2)
                     ELSE from_str(version_string)
             IN  IF specified_version = NoVersion THEN NoSplit
                 ELSE [some |-> TRUE, version |-> specified_version,
                       args |-> split_whitespace(Trim(trimmed_shebang))]

\* cli.rs 211-247.
split_shebang(shebang_line) ==
    LET i == first_accepted(shebang_line, split_accepted_paths, 1)
    IN  IF i = 0 THEN NoSplit
        ELSE LET exec_path == split_accepted_paths[i]
                 trimmed_shebang ==
                     SubSeq(shebang_line, Len(exec_path) + 1, Len(shebang_line))
                 version_string == TakeVersionChars(trimmed_shebang)
                 specified_version ==
                     IF version_string = <<>> THEN MajorOnly(2)
                     ELSE from_str(version_string)
                 arg_text == Trim(SubSeq(trimmed_shebang, Len(version_string) + 1,
                                         Len(trimmed_shebang)))
             IN  IF specified_version = NoVersion THEN NoSplit
                 ELSE [some |-> TRUE, version |-> specified_version,
                       args |-> split_whitespace(arg_text)]

TailChars == {"3", ".", " ", "S"}

\* First lines: an interpreter path, or something else, and at most n
\* characters after it.
ShLines(n) ==
    {head \o tail :
        head \in {Python, UsrBinPython, UsrLocalBinPython, UsrBinEnvPython,
                  UsrBinRustup, <<>>},
        tail \in Seqs(TailChars, n)}

\* A line with a form feed wherever it had a space.
WithFormFeeds(l) == [i \in 1..Len(l) |-> IF l[i] = " " THEN "\f" ELSE l[i]]

\* The byte streams of the lines of ShLines(n): without the marker, with it,
\* with whitespace after it, and with a second line after LF or CR LF.
Streams(n) ==
    ShLines(n)
    \cup {<<"#", "!">> \o l : l \in ShLines(n)}
    \cup {<<"#", "!", " ">> \o l : l \in ShLines(n)}
    \cup {<<"#", "!">> \o l \o <<"\n", "3">> : l \in ShLines(n)}
    \cup {<<"#", "!">> \o l \o <<"\r", "\n", "3">> : l \in ShLines(n)}
    \cup {<<"#", "!", "\r">> \o WithFormFeeds(l) : l \in ShLines(n)}

\* The streams that are also read through a short first read or a failure.
ShortStreams ==
    {marker \o l : marker \in {<<>>, <<"#", "!">>}, l \in ShLines(1)}

Readers(n) ==
    {Reader(b, 2, "none") : b \in Streams(n)}
    \cup {Reader(b, 1, "none") : b \in ShortStreams}
    \cup {Reader(b, 2, e) : b \in ShortStreams, e \in {"read", "read_line"}}

InitShebang ==
    /\ stream \in Readers(MaxTail)
    /\ parsed = NoVersion
    /\ shebang = NoLine
    /\ split = NoSplit
    /\ pc = "parse_python_shebang"
    /\ argv = <<>>
    /\ args = <<>>
    /\ requested_version = Any
    /\ MainIdle
    /\ CliIdle

ParsePythonShebang ==
    /\ pc = "parse_python_shebang"
    /\ parsed' = parse_python_shebang(stream)
    /\ pc' = "find_shebang"
    /\ UNCHANGED <<stream, shebang, split, argv, args, requested_version,
                   mainVars, cliVars>>

FindShebang ==
    /\ pc = "find_shebang"
    /\ shebang' = find_shebang(stream)
    /\ pc' = IF shebang'.some THEN "split_shebang" ELSE "sh_done"
    /\ UNCHANGED <<stream, parsed, split, argv, args, requested_version,
                   mainVars, cliVars>>

SplitShebang ==
    /\ pc = "split_shebang"
    /\ split' = split_shebang(shebang.line)
    /\ pc' = "sh_done"
    /\ UNCHANGED <<stream, parsed, shebang, argv, args, requested_version,
                   mainVars, cliVars>>

NextShebang == ParsePythonShebang \/ FindShebang \/ SplitShebang

SpecShebang == InitShebang /\ [][NextShebang]_vars

(***************************************************************************)
(* Claims about the shebang functions, checked under SpecShebang.          *)
(***************************************************************************)
RecognizedPrefixes == {Python, UsrBinPython, UsrLocalBinPython, UsrBinEnvPython}

Recognized(line) == \E p \in RecognizedPrefixes : StartsWith(line, p)

\* What follows the recognized prefix of a line.
AfterPrefix(line) ==
    LET p == CHOOSE q \in RecognizedPrefixes : StartsWith(line, q)
    IN  SubSeq(line, Len(p) + 1, Len(line))

\* The length of the longest run of digits and dots at the start of t.
FragmentLen(t) ==
    CHOOSE n \in 0..Len(t) :
        /\ \A i \in 1..n : t[i] \in Digits \cup {"."}
        /\ n = Len(t) \/ t[n + 1] \notin Digits \cup {"."}

Fragment(line) == SubSeq(AfterPrefix(line), 1, FragmentLen(AfterPrefix(line)))

AfterFragment(line) ==
    SubSeq(AfterPrefix(line), FragmentLen(AfterPrefix(line)) + 1,
           Len(AfterPrefix(line)))

\* A fragment is <major> or <major>.<minor> when it is a version flag
\* without its dash.
FragmentParses(f) == IsVersionFlag(<<"-">> \o f)

FragmentVersion(f) ==
    IF f = <<>> THEN MajorOnly(2) ELSE FlagVersion(<<"-">> \o f)

\* The whitespace-separated tokens of r: the maximal runs without
\* whitespace, in the order of their first characters.
TokenStarts(r) ==
    {i \in 1..Len(r) : r[i] \notin Whitespace /\ (i = 1 \/ r[i - 1] \in Whitespace)}

TokenEnd(r, i) ==
    CHOOSE j \in i..Len(r) :
        /\ \A k \in i..j : r[k] \notin Whitespace
        /\ j = Len(r) \/ r[j + 1] \in Whitespace

TokensOf(r) ==
    [k \in 1..Cardinality(TokenStarts(r)) |->
        LET i == CHOOSE x \in TokenStarts(r) :
                    Cardinality({y \in TokenStarts(r) : y < x}) = k - 1
        IN  SubSeq(r, i, TokenEnd(r, i))]

ParseDone == pc \in {"find_shebang", "split_shebang", "sh_done"}

\* The first line of the stream without its marker and the whitespace
\* around it.
StrippedLine == Trim(read_line(SubSeq(stream.bytes, 3, Len(stream.bytes))))

\* The reader hands over its bytes without a short read and without failing.
ReadsWhole == stream.error = "none" /\ stream.first_read >= 2

\* C5: for a stream that begins with #! and names a recognized interpreter,
\* parse_python_shebang gives the version of the digits and dots after the
\* prefix, MajorOnly(2) when there are none and no version when they do not
\* parse; for any other stream it gives no version.
C5_ShebangVersionParsed ==
    (ParseDone /\ ReadsWhole) =>
        parsed = IF StartsWith(stream.bytes, <<"#", "!">>) /\ Recognized(StrippedLine)
                 THEN IF Fragment(StrippedLine) = <<>> THEN MajorOnly(2)
                      ELSE IF FragmentParses(Fragment(StrippedLine))
                      THEN FragmentVersion(Fragment(StrippedLine))
                      ELSE NoVersion
                 ELSE NoVersion

\* C6: split_shebang gives a result exactly for a line that starts with a
\* recognized prefix and whose version fragment is empty or parses; the
\* version is MajorOnly(2) for the empty fragment and the parsed one
\* otherwise, and the arguments are the whitespace-separated tokens of the
\* text after the fragment, in order.
C6_SplitShebang ==
    pc = "sh_done" /\ shebang.some =>
        LET line == shebang.line
            ok == /\ Recognized(line)
                  /\ Fragment(line) = <<>> \/ FragmentParses(Fragment(line))
        IN  /\ split.some <=> ok
            /\ ok => /\ split.version = FragmentVersion(Fragment(line))
                     /\ split.args = TokensOf(AfterFragment(line))

\* A line with an exact version and an argument after a form feed was split.
C6_Witness ==
    /\ pc = "sh_done"
    /\ split.some
    /\ split.version.kind = "Exact"
    /\ Len(split.args) >= 1
    /\ \E i \in 1..Len(shebang.line) : shebang.line[i] = "\f"

====
